---- MODULE Spec2Model ----
(***************************************************************************)
(* A model of AnkiServer/apps/rest_app.py: the RestApp WSGI dispatcher,    *)
(* its handler registry, its URL grammar and its collection jail.          *)
(*                                                                         *)
(* Python strings are sequences of one-character strings, so that split,   *)
(* join, normpath and the prefix comparison of _getCollectionPath work on  *)
(* characters, as they do in the program.                                  *)
(***************************************************************************)
EXTENDS Integers, Sequences, FiniteSets, TLC

VARIABLES
    data_root,      \* self.data_root
    allowed_hosts,  \* self.allowed_hosts
    handlers,       \* self.handlers: type -> (name -> handler)
    calls,          \* number of add_handler calls made so far
    last_add,       \* the last add_handler call: its arguments and what it raised
    last_group,     \* the last add_handler_group call, likewise, and their number
    req,            \* the request __call__ is working on
    pc,             \* the position of __call__ in its body
    ctx,            \* the locals of __call__
    steps,          \* the methods __call__ has invoked for this request, in order
    response,       \* what __call__ returned or raised for this request
    submitted,      \* the operations handed to col.execute
    parse_arg,      \* the argument of a direct call of _parsePath
    parse_built,    \* the (type, name, ids) that argument was constructed from
    parse_out,      \* the phase and the result of that call
    jail_arg,       \* the argument of a direct call of _getCollectionPath
    jail_out        \* the phase and the result of that call

appVars == <<data_root, allowed_hosts, handlers, calls, last_add, last_group>>
reqVars == <<req, pc, ctx, steps, response, submitted>>
pathVars == <<parse_arg, parse_built, parse_out>>
jailVars == <<jail_arg, jail_out>>
vars == <<appVars, reqVars, pathVars, jailVars>>

(***************************************************************************)
(* String literals of the program.                                         *)
(***************************************************************************)
collection == <<"c","o","l","l","e","c","t","i","o","n">>
model == <<"m","o","d","e","l">>
note == <<"n","o","t","e">>
deck == <<"d","e","c","k">>
card == <<"c","a","r","d">>
index == <<"i","n","d","e","x">>
collection_anki2 == <<"c","o","l","l","e","c","t","i","o","n",".","a","n","k","i","2">>

\* RestApp.handler_types; the bare strings are wrapped into one-element lists
\* as lines 129-130 (and 55-56) do before use.
handler_types == << <<collection>>, <<model, note, deck>>, <<card>> >>

\* Python's None: a one-element tuple that is no string of characters.
None == <<"None">>

(***************************************************************************)
(* str.split('/') and '/'.join(...)                                        *)
(***************************************************************************)
RECURSIVE split(_)
split(s) ==
    IF \A i \in 1..Len(s) : s[i] # "/"
    THEN <<s>>
    ELSE LET i == CHOOSE k \in 1..Len(s) :
                      s[k] = "/" /\ \A j \in 1..(k-1) : s[j] # "/"
         IN  <<SubSeq(s, 1, i-1)>> \o split(SubSeq(s, i+1, Len(s)))

RECURSIVE join(_)
join(parts) ==
    IF Len(parts) = 0 THEN <<>>
    ELSE IF Len(parts) = 1 THEN parts[1]
    ELSE parts[1] \o <<"/">> \o join(Tail(parts))

\* x in list
InList(x, list) == \E i \in 1..Len(list) : list[i] = x

(***************************************************************************)
(* RestApp._parsePath                                                      *)
(***************************************************************************)
\* walk without the break of lines 141-142: the loop goes on to the next slot
\* although fewer than two parts remain.
RECURSIVE walk_without_break(_, _, _, _)
walk_without_break(i, parts, handler_type, ids) ==
    LET out(p, t, d) == [parts |-> p, handler_type |-> t, ids |-> d] IN
    IF i > Len(handler_types) THEN out(parts, handler_type, ids)
    ELSE IF Len(parts) = 0 THEN out(parts, handler_type, ids)
    ELSE IF ~InList(parts[1], handler_types[i]) THEN out(parts, handler_type, ids)
    ELSE LET t  == Head(parts)
             p1 == Tail(parts)
             d  == IF Len(p1) > 0 THEN Append(ids, Head(p1)) ELSE ids
             p2 == IF Len(p1) > 0 THEN Tail(p1) ELSE p1
         IN  walk_without_break(i + 1, p2, t, d)

\* walk that takes the part after a type for an identifier only when it is no
\* type name itself.
RECURSIVE walk_types_first(_, _, _, _)
walk_types_first(i, parts, handler_type, ids) ==
    LET out(p, t, d) == [parts |-> p, handler_type |-> t, ids |-> d]
        is_type(s) == \E k \in 1..Len(handler_types) : InList(s, handler_types[k])
    IN
    IF i > Len(handler_types) THEN out(parts, handler_type, ids)
    ELSE IF Len(parts) = 0 THEN out(parts, handler_type, ids)
    ELSE IF ~InList(parts[1], handler_types[i]) THEN out(parts, handler_type, ids)
    ELSE LET t  == Head(parts)
             p1 == Tail(parts)
             take == Len(p1) > 0 /\ ~is_type(Head(p1))
             d  == IF take THEN Append(ids, Head(p1)) ELSE ids
             p2 == IF take THEN Tail(p1) ELSE p1
         IN  IF Len(p2) < 2 THEN out(p2, t, d)
             ELSE walk_types_first(i + 1, p2, t, d)

\* The for loop of lines 124-142, from slot i on, with the loop's variables.
RECURSIVE walk(_, _, _, _)
walk(i, parts, handler_type, ids) ==
    LET out(p, t, d) == [parts |-> p, handler_type |-> t, ids |-> d] IN
    IF i > Len(handler_types) THEN out(parts, handler_type, ids)
    ELSE IF Len(parts) = 0 THEN out(parts, handler_type, ids)
    ELSE IF ~InList(parts[1], handler_types[i]) THEN out(parts, handler_type, ids)
    ELSE LET t  == Head(parts)
             p1 == Tail(parts)
             d  == IF Len(p1) > 0 THEN Append(ids, Head(p1)) ELSE ids
             p2 == IF Len(p1) > 0 THEN Tail(p1) ELSE p1
         IN  IF Len(p2) < 2 THEN out(p2, t, d)
             ELSE walk(i + 1, p2, t, d)

NotFound == [ok |-> FALSE, status |-> 404]

\* _parsePath whose sanity check of line 145 forgets len(ids) == 0.
_parsePath_without_ids_check(path) ==
    IF path = <<>> \/ path = <<"/">> THEN NotFound
    ELSE LET stripped == IF path[1] = "/" THEN Tail(path) ELSE path
             w == walk(1, split(stripped), None, <<>>)
         IN  IF Len(w.parts) > 1 THEN NotFound
             ELSE [ok |-> TRUE,
                   type |-> w.handler_type,
                   name |-> IF Len(w.parts) = 0 THEN index ELSE w.parts[1],
                   ids |-> w.ids]

\* _parsePath whose sanity check of line 145 forgets len(parts) > 1.
_parsePath_without_parts_check(path) ==
    IF path = <<>> \/ path = <<"/">> THEN NotFound
    ELSE LET stripped == IF path[1] = "/" THEN Tail(path) ELSE path
             w == walk(1, split(stripped), None, <<>>)
         IN  IF Len(w.ids) = 0 THEN NotFound
             ELSE [ok |-> TRUE,
                   type |-> w.handler_type,
                   name |-> IF Len(w.parts) = 0 THEN index ELSE w.parts[1],
                   ids |-> w.ids]

_parsePath(path) ==
    IF path = <<>> \/ path = <<"/">> THEN NotFound
    ELSE LET stripped == IF path[1] = "/" THEN Tail(path) ELSE path
             w == walk(1, split(stripped), None, <<>>)
         IN  IF Len(w.parts) > 1 \/ Len(w.ids) = 0 THEN NotFound
             ELSE [ok |-> TRUE,
                   type |-> w.handler_type,
                   name |-> IF Len(w.parts) = 0 THEN index ELSE w.parts[1],
                   ids |-> w.ids]

(***************************************************************************)
(* posixpath.join, posixpath.normpath, posixpath.abspath, as the standard  *)
(* library computes them.                                                  *)
(***************************************************************************)
startswith(s, prefix) ==
    Len(s) >= Len(prefix) /\ SubSeq(s, 1, Len(prefix)) = prefix

endswith(s, c) == Len(s) > 0 /\ s[Len(s)] = c

\* posixpath.join(a, b)
join2(a, b) ==
    IF startswith(b, <<"/">>) THEN b
    ELSE IF a = <<>> \/ endswith(a, "/") THEN a \o b
    ELSE a \o <<"/">> \o b

\* posixpath.join(a, b, c)
os_path_join(a, b, c) == join2(join2(a, b), c)

\* the loop of normpath over the components, new_comps being built
RECURSIVE norm_comps(_, _, _)
norm_comps(comps, new_comps, initial_slashes) ==
    IF Len(comps) = 0 THEN new_comps
    ELSE LET comp == Head(comps)
             rest == Tail(comps)
             dotdot == <<".", ".">>
         IN  IF comp = <<>> \/ comp = <<".">>
             THEN norm_comps(rest, new_comps, initial_slashes)
             ELSE IF \/ comp # dotdot
                     \/ (initial_slashes = 0 /\ Len(new_comps) = 0)
                     \/ (Len(new_comps) > 0 /\ new_comps[Len(new_comps)] = dotdot)
             THEN norm_comps(rest, Append(new_comps, comp), initial_slashes)
             ELSE IF Len(new_comps) > 0
             THEN norm_comps(rest, SubSeq(new_comps, 1, Len(new_comps) - 1),
                             initial_slashes)
             ELSE norm_comps(rest, new_comps, initial_slashes)

os_path_normpath(path) ==
    IF path = <<>> THEN <<".">>
    ELSE LET initial_slashes ==
                 IF ~startswith(path, <<"/">>) THEN 0
                 ELSE IF startswith(path, <<"/", "/">>)
                         /\ ~startswith(path, <<"/", "/", "/">>) THEN 2
                 ELSE 1
             joined == join(norm_comps(split(path), <<>>, initial_slashes))
             result == IF initial_slashes = 2 THEN <<"/", "/">> \o joined
                       ELSE IF initial_slashes = 1 THEN <<"/">> \o joined
                       ELSE joined
         IN  IF result = <<>> THEN <<".">> ELSE result

\* the working directory of the server process
cwd == <<"/", "c">>

os_path_abspath(path) ==
    IF startswith(path, <<"/">>) THEN os_path_normpath(path)
    ELSE os_path_normpath(join2(cwd, path))

(***************************************************************************)
(* RestApp._getCollectionPath                                              *)
(***************************************************************************)
\* path[0:n+1]: the slice taken one character too long.
slice0_inclusive(s, n) == SubSeq(s, 1, IF n + 1 < Len(s) THEN n + 1 ELSE Len(s))

\* Python's path[0:n]
slice0(s, n) == SubSeq(s, 1, IF n < Len(s) THEN n ELSE Len(s))

BadRequest == [ok |-> FALSE, status |-> 400]

_getCollectionPath(root, collection_id) ==
    LET p == os_path_normpath(os_path_join(root, collection_id, collection_anki2))
    IN  IF slice0(p, Len(root)) # root THEN BadRequest
        ELSE [ok |-> TRUE, path |-> p]

\* The directory components of an absolute path.
RECURSIVE nonempty(_)
nonempty(parts) ==
    IF Len(parts) = 0 THEN <<>>
    ELSE IF Head(parts) = <<>> THEN nonempty(Tail(parts))
    ELSE <<Head(parts)>> \o nonempty(Tail(parts))

components(p) == nonempty(split(p))

\* p lies inside the directory tree of root (both normalized, absolute).
IsDescendant(p, root) ==
    LET c == components(p)
        rc == components(root)
    IN  /\ Len(c) > Len(rc)
        /\ SubSeq(c, 1, Len(rc)) = rc
        /\ \A i \in 1..Len(c) : c[i] # <<".", ".">>

(***************************************************************************)
(* The handler registry: RestApp.__init__, add_handler, _getHandler        *)
(***************************************************************************)
Types == {collection, model, note, deck, card}

\* A dict with no keys.
EmptyDict == [k \in {} |-> k]

\* The handler callables of the model.  attr is the callable's own
\* hasReturnValue attribute ("absent" when it has none, as a plain function);
\* does is what calling it does.
plain_list == [func |-> "plain_list", attr |-> "absent", does |-> "returns"]
no_return == [func |-> "no_return", attr |-> "False", does |-> "returns_none"]
failing == [func |-> "failing", attr |-> "True", does |-> "raises"]
Handlers == {plain_list, no_return, failing}

\* The method names of the handler groups.
add_note == <<"a", "d", "d", "_", "n", "o", "t", "e">>
find_cards == <<"f", "i", "n", "d", "_", "c", "a", "r", "d", "s">>
find_model_by_name == <<"f", "i", "n", "d", "_", "m", "o", "d", "e", "l", "_", "b", "y", "_", "n", "a", "m", "e">>
find_notes == <<"f", "i", "n", "d", "_", "n", "o", "t", "e", "s">>
list_decks == <<"l", "i", "s", "t", "_", "d", "e", "c", "k", "s">>
list_models == <<"l", "i", "s", "t", "_", "m", "o", "d", "e", "l", "s">>
sched_reset == <<"s", "c", "h", "e", "d", "_", "r", "e", "s", "e", "t">>
select_deck == <<"s", "e", "l", "e", "c", "t", "_", "d", "e", "c", "k">>
field_names == <<"f", "i", "e", "l", "d", "_", "n", "a", "m", "e", "s">>
next_card == <<"n", "e", "x", "t", "_", "c", "a", "r", "d">>
import_file == <<"i", "m", "p", "o", "r", "t", "_", "f", "i", "l", "e">>
_get_filedata == <<"_", "g", "e", "t", "_", "f", "i", "l", "e", "d", "a", "t", "a">>
_get_importer_class == <<"_", "g", "e", "t", "_", "i", "m", "p", "o", "r", "t", "e", "r", "_", "c", "l", "a", "s", "s">>

\* A handler group: its class name, the hasReturnValue attribute of the instance
\* ("True" inherited from RestHandlerBase, or "absent"), and what
\* inspect.getmembers(group, predicate=inspect.ismethod) lists: the bound
\* methods sorted by name (the static _serialize of lines 406 and 436 is no
\* method).  attr is "False" under @noReturnValue; does is what the method does
\* on the object body of the model, which has the key 'query' only.
CollectionHandler ==
    [cls |-> "CollectionHandler", hasReturnValue |-> "True", methods |->
      << [name |-> add_note, func |-> "CollectionHandler.add_note", attr |-> "False", does |-> "raises"],
         [name |-> find_cards, func |-> "CollectionHandler.find_cards", attr |-> "absent", does |-> "returns"],
         [name |-> find_model_by_name, func |-> "CollectionHandler.find_model_by_name", attr |-> "absent", does |-> "raises"],
         [name |-> find_notes, func |-> "CollectionHandler.find_notes", attr |-> "absent", does |-> "returns"],
         [name |-> list_decks, func |-> "CollectionHandler.list_decks", attr |-> "absent", does |-> "returns"],
         [name |-> list_models, func |-> "CollectionHandler.list_models", attr |-> "absent", does |-> "returns"],
         [name |-> sched_reset, func |-> "CollectionHandler.sched_reset", attr |-> "False", does |-> "returns_none"],
         [name |-> select_deck, func |-> "CollectionHandler.select_deck", attr |-> "False", does |-> "raises"] >>]

ImportExportHandler ==
    [cls |-> "ImportExportHandler", hasReturnValue |-> "True", methods |->
      << [name |-> _get_filedata, func |-> "ImportExportHandler._get_filedata", attr |-> "absent", does |-> "raises"],
         [name |-> _get_importer_class, func |-> "ImportExportHandler._get_importer_class", attr |-> "absent", does |-> "raises"],
         [name |-> import_file, func |-> "ImportExportHandler.import_file", attr |-> "absent", does |-> "raises"] >>]

ModelHandler ==
    [cls |-> "ModelHandler", hasReturnValue |-> "True", methods |->
      << [name |-> field_names, func |-> "ModelHandler.field_names", attr |-> "absent", does |-> "returns"] >>]

NoteHandler ==
    [cls |-> "NoteHandler", hasReturnValue |-> "True", methods |->
      << [name |-> index, func |-> "NoteHandler.index", attr |-> "absent", does |-> "returns"] >>]

DeckHandler ==
    [cls |-> "DeckHandler", hasReturnValue |-> "True", methods |->
      << [name |-> next_card, func |-> "DeckHandler.next_card", attr |-> "absent", does |-> "returns"] >>]

CardHandler ==
    [cls |-> "CardHandler", hasReturnValue |-> "True", methods |-> <<>>]

\* self.handlers after __init__ with use_default_handlers=False (lines 53-58)
InitHandlers == [t \in Types |-> EmptyDict]

\* The attributes __init__ assigns on self (lines 45, 46, 53).
instance_attrs == {"data_root", "allowed_hosts", "handlers"}

\* add_handler without the has_key test of line 77: a second registration
\* replaces the first.
add_handler_overwriting(reg, type, name, handler) ==
    IF type \notin DOMAIN reg
    THEN [handlers |-> reg, raised |-> "KeyError"]
    ELSE [handlers |-> [reg EXCEPT ![type] = (name :> handler) @@ reg[type]],
          raised |-> ""]

\* add_handler(type, name, handler): the registry afterwards and what was raised.
\* `raise "..."` of a string is itself an error (TypeError since Python 2.6, the
\* string exception before); either way an exception leaves add_handler at line 78.
add_handler(reg, type, name, handler) ==
    IF type \notin DOMAIN reg
    THEN [handlers |-> reg, raised |-> "KeyError"]
    ELSE IF name \in DOMAIN reg[type]
    THEN [handlers |-> reg, raised |-> "already exists"]
    ELSE [handlers |-> [reg EXCEPT ![type] = (name :> handler) @@ reg[type]],
          raised |-> ""]

\* Line 90-91 with the group's default given to every method, whatever
\* hasReturnValue the method itself carries.
wrap_every_method(group, m) ==
    IF group.hasReturnValue # "absent"
    THEN [func |-> m.func, attr |-> group.hasReturnValue, does |-> m.does]
    ELSE [func |-> m.func, attr |-> m.attr, does |-> m.does]

\* Lines 90-91: a method without a hasReturnValue of its own, of a group that
\* has one, is registered as a _RestHandlerWrapper carrying the group's.
wrap(group, m) ==
    IF group.hasReturnValue # "absent" /\ m.attr = "absent"
    THEN [func |-> m.func, attr |-> group.hasReturnValue, does |-> m.does]
    ELSE [func |-> m.func, attr |-> m.attr, does |-> m.does]

\* The loop of lines 88-92 from the i-th member on: a member whose name starts
\* with '_' is skipped; an add_handler that raises ends the loop and the call.
RECURSIVE register_members(_, _, _, _)
register_members(reg, type, group, i) ==
    IF i > Len(group.methods) THEN [handlers |-> reg, raised |-> ""]
    ELSE LET m == group.methods[i]
         IN  IF startswith(m.name, <<"_">>)
             THEN register_members(reg, type, group, i + 1)
             ELSE LET r == add_handler(reg, type, m.name, wrap(group, m))
                  IN  IF r.raised # "" THEN r
                      ELSE register_members(r.handlers, type, group, i + 1)

\* add_handler_group(type, group): the registry afterwards and what was raised.
add_handler_group(reg, type, group) == register_members(reg, type, group, 1)

\* self.handlers after __init__ with use_default_handlers=True (lines 60-65)
DefaultHandlers ==
    LET h1 == add_handler_group(InitHandlers, collection, CollectionHandler).handlers
        h2 == add_handler_group(h1, note, NoteHandler).handlers
        h3 == add_handler_group(h2, model, ModelHandler).handlers
        h4 == add_handler_group(h3, deck, DeckHandler).handlers
    IN  add_handler_group(h4, card, CardHandler).handlers

\* _getHandler(type, name)
_getHandler(reg, type, name) ==
    IF type \notin DOMAIN reg \/ name \notin DOMAIN reg[type]
    THEN NotFound
    ELSE LET handler == reg[type][name]
         IN  [ok |-> TRUE,
              handler |-> handler,
              hasReturnValue |-> IF handler.attr = "absent" THEN TRUE
                                 ELSE handler.attr = "True"]

(***************************************************************************)
(* RestApp._checkRequest                                                   *)
(***************************************************************************)
Passed == [ok |-> TRUE]

\* _checkRequest without the method test of lines 104-105.
_checkRequest_any_method(allowed, r) ==
    LET remote_addr == IF "X-Forwarded-For" \in DOMAIN r.headers
                       THEN r.headers["X-Forwarded-For"]
                       ELSE r.remote_addr
    IN  IF allowed # "*" /\ remote_addr # allowed
        THEN [ok |-> FALSE, status |-> 403, allow |-> ""]
        ELSE Passed

\* _checkRequest comparing the peer address only, whatever X-Forwarded-For says.
_checkRequest_peer_only(allowed, r) ==
    IF allowed # "*" /\ r.remote_addr # allowed
    THEN [ok |-> FALSE, status |-> 403, allow |-> ""]
    ELSE IF r.method # "POST"
    THEN [ok |-> FALSE, status |-> 405, allow |-> "POST"]
    ELSE Passed

_checkRequest(allowed, r) ==
    LET remote_addr == IF "X-Forwarded-For" \in DOMAIN r.headers
                       THEN r.headers["X-Forwarded-For"]
                       ELSE r.remote_addr
    IN  IF allowed # "*" /\ remote_addr # allowed
        THEN [ok |-> FALSE, status |-> 403, allow |-> ""]
        ELSE IF r.method # "POST"
        THEN [ok |-> FALSE, status |-> 405, allow |-> "POST"]
        ELSE Passed

(***************************************************************************)
(* RestApp._parseRequestBody                                               *)
(***************************************************************************)
\* The request bodies of the model: a JSON object, text that is no JSON, and
\* JSON that is no object.
ObjectBodies == {"{\"query\": \"tag:foo\"}"}
MalformedBodies == {"{\"query\": "}
ArrayBodies == {"[1, 2]"}
Bodies == ObjectBodies \cup MalformedBodies \cup ArrayBodies

\* json.loads(body): the Python type of the value, or JSONDecodeError
json_loads(body) ==
    IF body \in ObjectBodies THEN [ok |-> TRUE, type |-> "dict"]
    ELSE IF body \in ArrayBodies THEN [ok |-> TRUE, type |-> "list"]
    ELSE [ok |-> FALSE, type |-> "JSONDecodeError"]

\* _parseRequestBody without the except clause of lines 194-196.
_parseRequestBody_uncaught(body) ==
    LET data == json_loads(body)
    IN  IF ~data.ok THEN [ok |-> FALSE, status |-> 0, exc |-> data.type]
        ELSE IF data.type # "dict"
        THEN [ok |-> FALSE, status |-> 0, exc |-> "AttributeError"]
        ELSE [ok |-> TRUE, status |-> 0, exc |-> ""]

\* _parseRequestBody that takes any body for a dict.
_parseRequestBody_lenient(body) == [ok |-> TRUE, status |-> 0, exc |-> ""]

\* _parseRequestBody(req): the dict, HTTPBadRequest, or the AttributeError of
\* data.items() at line 199 when the JSON value is no dict.
_parseRequestBody(body) ==
    LET data == json_loads(body)
    IN  IF ~data.ok THEN [ok |-> FALSE, status |-> 400, exc |-> ""]
        ELSE IF data.type # "dict"
        THEN [ok |-> FALSE, status |-> 0, exc |-> "AttributeError"]
        ELSE [ok |-> TRUE, status |-> 0, exc |-> ""]

(***************************************************************************)
(* RestApp.__call__                                                        *)
(***************************************************************************)
NoHandler == [func |-> "", attr |-> "absent", does |-> ""]

\* The locals of __call__ before line 209 has run.
EmptyCtx == [type |-> <<>>, name |-> <<>>, ids |-> <<>>, collection_path |-> <<>>,
             handler |-> NoHandler, hasReturnValue |-> FALSE, data |-> "unset"]

NoRequest == [method |-> "", headers |-> EmptyDict, remote_addr |-> "",
              path |-> <<>>, body |-> ""]

NoResponse == [status |-> 0, allow |-> "", content_type |-> "", body |-> "",
               exc |-> ""]

\* A webob.exc HTTP error raised in __call__, which wsgify turns into the response.
HTTPError(status, allow) == [NoResponse EXCEPT !.status = status, !.allow = allow]

\* An exception that is no HTTP error leaves __call__ and wsgify.
Propagates(exc) == [NoResponse EXCEPT !.exc = exc]

\* col.execute(handler, [data, ids], {}, hasReturnValue) of the collection
\* manager: what it returns ("None" or "value") or that it raises.
execute(handler, hasReturnValue) ==
    IF handler.does = "raises" THEN "raises"
    ELSE IF ~hasReturnValue \/ handler.does = "returns_none" THEN "None"
    ELSE "value"

\* Lines 227-236: the response made from the outcome of col.execute.
ResponseOf(output) ==
    IF output = "raises" THEN HTTPError(500, "")
    ELSE IF output = "None"
    THEN [NoResponse EXCEPT !.status = 200, !.content_type = "text/plain"]
    ELSE [NoResponse EXCEPT !.status = 200, !.content_type = "application/json",
                            !.body = "json.dumps(output)"]

(***************************************************************************)
(* The inputs of the model                                                 *)
(***************************************************************************)
op == <<"o", "p">>
x == <<"x">>
y == <<"y">>
dotdot == <<".", ".">>
deck1 == <<"d", "e", "c", "k", "1">>

Url(segments) == <<"/">> \o join(segments)

ReqPaths == { <<"/">>,
              Url(<<collection, x>>),
              Url(<<collection, x, op>>),
              Url(<<collection, dotdot, op>>),
              Url(<<collection, x, note, y, op>>),
              Url(<<collection, deck1, add_note>>),
              Url(<<collection, deck1, note, find_notes>>) }

Hosts == {"10.0.0.1", "10.0.0.2"}

Requests == [method : {"POST", "GET"},
             headers : {EmptyDict} \cup {("X-Forwarded-For" :> h) : h \in Hosts},
             remote_addr : Hosts,
             path : ReqPaths,
             body : Bodies]

\* The number of add_handler calls the model follows.
MaxCalls == 2

\* The type and the name add_handler is called with; index is never
\* registered for a collection, so /collection/x names an operation that is
\* not there, and neither is op for a note.
RegTypes == {collection}
RegNames == {op}

(***************************************************************************)
(* The application: registrations and requests                             *)
(***************************************************************************)
NoResult == [ok |-> FALSE, status |-> 0]

PathIdle ==
    /\ parse_arg = <<>>
    /\ parse_built = [set |-> FALSE, bare |-> FALSE, type |-> <<>>,
                      name |-> <<>>, ids |-> <<>>]
    /\ parse_out = [phase |-> "idle", result |-> NoResult]

JailIdle ==
    /\ jail_arg = <<>>
    /\ jail_out = [phase |-> "idle", result |-> NoResult]

\* No add_handler_group call has been made.
NoGroupCall ==
    [n |-> 0, type |-> <<>>, raised |-> "",
     group |-> [cls |-> "", hasReturnValue |-> "absent", methods |-> <<>>]]

\* RestApp(data_root, allowed_hosts, use_default_handlers) has been constructed.
Init ==
    /\ data_root = os_path_abspath(<<"/", "d">>)
    /\ allowed_hosts \in {"*", "10.0.0.1"}
    /\ \E use_default_handlers \in BOOLEAN :
         handlers = IF use_default_handlers THEN DefaultHandlers ELSE InitHandlers
    /\ calls = 0
    /\ last_add = [type |-> <<>>, name |-> <<>>, handler |-> NoHandler, raised |-> ""]
    /\ last_group = NoGroupCall
    /\ req = NoRequest
    /\ pc = "idle"
    /\ ctx = EmptyCtx
    /\ steps = <<>>
    /\ response = NoResponse
    /\ submitted = <<>>
    /\ PathIdle
    /\ JailIdle

\* add_handler is called with some type, name and handler.
AddHandler ==
    /\ calls < MaxCalls
    /\ \E type \in RegTypes, name \in RegNames, handler \in Handlers :
         LET r == add_handler(handlers, type, name, handler)
         IN  /\ handlers' = r.handlers
             /\ last_add' = [type |-> type, name |-> name, handler |-> handler,
                             raised |-> r.raised]
    /\ calls' = calls + 1
    /\ UNCHANGED <<data_root, allowed_hosts, last_group, reqVars, pathVars, jailVars>>

\* A request arrives and __call__ starts on it.
Receive ==
    /\ pc = "idle"
    /\ req' \in Requests
    /\ pc' = "check"
    /\ ctx' = EmptyCtx
    /\ steps' = <<>>
    /\ response' = NoResponse
    /\ UNCHANGED <<appVars, submitted, pathVars, jailVars>>

\* __call__ ends with this response (returned, or raised as said in Propagates).
Finish(resp) ==
    /\ response' = resp
    /\ pc' = "done"

\* line 206
CheckRequest ==
    /\ pc = "check"
    /\ steps' = Append(steps, "_checkRequest")
    /\ LET c == _checkRequest(allowed_hosts, req)
       IN  IF c.ok THEN pc' = "parse" /\ UNCHANGED response
           ELSE Finish(HTTPError(c.status, c.allow))
    /\ UNCHANGED <<appVars, req, ctx, submitted, pathVars, jailVars>>

\* line 209
ParsePath ==
    /\ pc = "parse"
    /\ steps' = Append(steps, "_parsePath")
    /\ LET p == _parsePath(req.path)
       IN  IF p.ok
           THEN /\ ctx' = [ctx EXCEPT !.type = p.type, !.name = p.name, !.ids = p.ids]
                /\ pc' = "locate"
                /\ UNCHANGED response
           ELSE Finish(HTTPError(p.status, "")) /\ UNCHANGED ctx
    /\ UNCHANGED <<appVars, req, submitted, pathVars, jailVars>>

\* line 212
GetCollectionPath ==
    /\ pc = "locate"
    /\ steps' = Append(steps, "_getCollectionPath")
    /\ LET c == _getCollectionPath(data_root, ctx.ids[1])
       IN  IF c.ok
           THEN /\ ctx' = [ctx EXCEPT !.collection_path = c.path]
                /\ pc' = "lookup"
                /\ UNCHANGED response
           ELSE Finish(HTTPError(c.status, "")) /\ UNCHANGED ctx
    /\ UNCHANGED <<appVars, req, submitted, pathVars, jailVars>>

\* __call__ with lines 216 and 219 exchanged: the body is parsed right after
\* the collection path is found, the handler looked up afterwards.
GetHandler_after_body ==
    /\ pc = "lookup"
    /\ steps' = Append(steps, "_parseRequestBody")
    /\ LET b == _parseRequestBody(req.body)
           h == _getHandler(handlers, ctx.type, ctx.name)
       IN  IF ~b.ok
           THEN /\ Finish(IF b.exc # "" THEN Propagates(b.exc)
                          ELSE HTTPError(b.status, ""))
                /\ UNCHANGED ctx
           ELSE IF ~h.ok
           THEN Finish(HTTPError(h.status, "")) /\ UNCHANGED ctx
           ELSE /\ ctx' = [ctx EXCEPT !.handler = h.handler,
                                      !.hasReturnValue = h.hasReturnValue,
                                      !.data = "dict"]
                /\ pc' = "run"
                /\ UNCHANGED response
    /\ UNCHANGED <<appVars, req, submitted, pathVars, jailVars>>

\* line 216
GetHandler ==
    /\ pc = "lookup"
    /\ steps' = Append(steps, "_getHandler")
    /\ LET h == _getHandler(handlers, ctx.type, ctx.name)
       IN  IF h.ok
           THEN /\ ctx' = [ctx EXCEPT !.handler = h.handler,
                                      !.hasReturnValue = h.hasReturnValue]
                /\ pc' = "body"
                /\ UNCHANGED response
           ELSE Finish(HTTPError(h.status, "")) /\ UNCHANGED ctx
    /\ UNCHANGED <<appVars, req, submitted, pathVars, jailVars>>

\* line 219
ParseRequestBody ==
    /\ pc = "body"
    /\ steps' = Append(steps, "_parseRequestBody")
    /\ LET b == _parseRequestBody(req.body)
       IN  IF b.ok
           THEN /\ ctx' = [ctx EXCEPT !.data = "dict"]
                /\ pc' = "run"
                /\ UNCHANGED response
           ELSE /\ Finish(IF b.exc # "" THEN Propagates(b.exc)
                          ELSE HTTPError(b.status, ""))
                /\ UNCHANGED ctx
    /\ UNCHANGED <<appVars, req, submitted, pathVars, jailVars>>

\* lines 226-236.  Line 226 reads self.collection_manager, which __init__ does
\* not assign (lines 48-51 bind the manager to the local col only): the read
\* raises AttributeError outside the try of line 227.
RunHandler ==
    /\ pc = "run"
    /\ IF "collection_manager" \notin instance_attrs
       THEN /\ Finish(Propagates("AttributeError"))
            /\ UNCHANGED <<steps, submitted>>
       ELSE /\ steps' = steps \o <<"get_collection", "execute">>
            /\ submitted' = Append(submitted,
                                   [collection_path |-> ctx.collection_path,
                                    handler |-> ctx.handler,
                                    args |-> <<ctx.data, ctx.ids>>])
            /\ Finish(ResponseOf(execute(ctx.handler, ctx.hasReturnValue)))
    /\ UNCHANGED <<appVars, req, ctx, pathVars, jailVars>>

\* The response has gone to the client; the locals of __call__ are dropped.
Return ==
    /\ pc = "done"
    /\ pc' = "idle"
    /\ req' = NoRequest
    /\ ctx' = EmptyCtx
    /\ steps' = <<>>
    /\ response' = NoResponse
    /\ UNCHANGED <<appVars, submitted, pathVars, jailVars>>

Next ==
    \/ AddHandler
    \/ Receive
    \/ CheckRequest
    \/ ParsePath
    \/ GetCollectionPath
    \/ GetHandler
    \/ ParseRequestBody
    \/ RunHandler
    \/ Return

Spec == Init /\ [][Next]_vars

(***************************************************************************)
(* _parsePath called directly, on paths constructed from type/id pairs and *)
(* on arbitrary paths.                                                     *)
(***************************************************************************)
\* The slash-free strings the paths are made of: every type name, an ordinary
\* identifier and the empty string.
Segments == {collection, model, note, deck, card, x, <<>>}

\* The longest arbitrary path, in segments.
MaxSegs == 5

\* type/id pairs and the operation name, flattened to the list of segments
RECURSIVE Interleave(_, _)
Interleave(types, ids) ==
    IF Len(types) = 0 THEN <<>>
    ELSE <<Head(types), Head(ids)>> \o Interleave(Tail(types), Tail(ids))

InitRequestIdle ==
    /\ handlers = InitHandlers
    /\ calls = 0
    /\ last_add = [type |-> <<>>, name |-> <<>>, handler |-> NoHandler, raised |-> ""]
    /\ last_group = NoGroupCall
    /\ req = NoRequest
    /\ pc = "idle"
    /\ ctx = EmptyCtx
    /\ steps = <<>>
    /\ response = NoResponse
    /\ submitted = <<>>

InitPath ==
    /\ data_root = os_path_abspath(<<"/", "d">>)
    /\ allowed_hosts = "*"
    /\ InitRequestIdle
    /\ PathIdle
    /\ JailIdle

\* A path is constructed from k type/id pairs in slot order and a name.
BuildPath ==
    /\ parse_out.phase = "idle"
    /\ \E k \in 1..Len(handler_types) :
         \E middle \in {model, note, deck}, ids \in [1..k -> Segments],
            name \in Segments :
           LET types == SubSeq(<<collection, middle, card>>, 1, k)
           IN  /\ parse_arg' = Url(Interleave(types, ids) \o <<name>>)
               /\ parse_built' = [set |-> TRUE, bare |-> FALSE, type |-> types[k],
                                  name |-> name, ids |-> ids]
    /\ parse_out' = [parse_out EXCEPT !.phase = "ready"]
    /\ UNCHANGED <<appVars, reqVars, jailVars>>

\* A path is constructed from k type/id pairs alone: it ends at an identifier,
\* and the name to expect is the default.
BuildBarePath ==
    /\ parse_out.phase = "idle"
    /\ \E k \in 1..Len(handler_types) :
         \E middle \in {model, note, deck}, ids \in [1..k -> Segments] :
           LET types == SubSeq(<<collection, middle, card>>, 1, k)
           IN  /\ parse_arg' = Url(Interleave(types, ids))
               /\ parse_built' = [set |-> TRUE, bare |-> TRUE, type |-> types[k],
                                  name |-> index, ids |-> ids]
    /\ parse_out' = [parse_out EXCEPT !.phase = "ready"]
    /\ UNCHANGED <<appVars, reqVars, jailVars>>

\* Any path, with or without its leading slash.
RawPath ==
    /\ parse_out.phase = "idle"
    /\ \E lead \in BOOLEAN, n \in 0..MaxSegs :
         \E segments \in [1..n -> Segments] :
           parse_arg' = (IF lead THEN <<"/">> ELSE <<>>) \o join(segments)
    /\ parse_out' = [parse_out EXCEPT !.phase = "ready"]
    /\ UNCHANGED <<appVars, reqVars, jailVars, parse_built>>

CallParsePath ==
    /\ parse_out.phase = "ready"
    /\ parse_out' = [phase |-> "returned", result |-> _parsePath(parse_arg)]
    /\ UNCHANGED <<appVars, reqVars, jailVars, parse_arg, parse_built>>

NextPath ==
    \/ BuildPath
    \/ BuildBarePath
    \/ RawPath
    \/ CallParsePath

SpecPath == InitPath /\ [][NextPath]_vars

(***************************************************************************)
(* _getCollectionPath called directly, on any identifier.                  *)
(***************************************************************************)
\* The characters of the identifiers, and their greatest length.
JailChars == {"/", ".", "d"}
MaxIdLen == 5

\* The data_root arguments of RestApp(...).
DataRoots == { <<"/", "d">>, <<"/", "d", "/", "d", "/">>, <<"d">>, <<"/", "c">> }

InitJail ==
    /\ data_root \in {os_path_abspath(r) : r \in DataRoots}
    /\ allowed_hosts = "*"
    /\ InitRequestIdle
    /\ PathIdle
    /\ \E n \in 0..MaxIdLen : jail_arg \in [1..n -> JailChars]
    /\ jail_out = [phase |-> "ready", result |-> NoResult]

CallGetCollectionPath ==
    /\ jail_out.phase = "ready"
    /\ jail_out' = [phase |-> "returned",
                    result |-> _getCollectionPath(data_root, jail_arg)]
    /\ UNCHANGED <<appVars, reqVars, pathVars, jail_arg>>

NextJail == CallGetCollectionPath

SpecJail == InitJail /\ [][NextJail]_vars

(***************************************************************************)
(* Registration alone: add_handler and add_handler_group on a fresh RestApp *)
(***************************************************************************)
\* A group that is no part of the program, with a private method, a plain one
\* and one under @noReturnValue; d is its hasReturnValue ("absent" for a
\* group that does not descend from RestHandlerBase).
CustomGroup(d) ==
    [cls |-> "Custom", hasReturnValue |-> d, methods |->
      << [name |-> <<"_">> \o op, func |-> "Custom._op", attr |-> "absent", does |-> "returns"],
         [name |-> op, func |-> "Custom.op", attr |-> "absent", does |-> "returns"],
         [name |-> x, func |-> "Custom.x", attr |-> "False", does |-> "returns_none"] >>]

Groups ==
    {CollectionHandler, ImportExportHandler, NoteHandler}
        \cup {CustomGroup(d) : d \in {"False", "absent"}}

\* The types add_handler_group is called with.
GroupTypes == {collection, note}

\* The number of add_handler_group calls the model follows.
MaxGroupCalls == 2

InitRegistry ==
    /\ data_root = os_path_abspath(<<"/", "d">>)
    /\ allowed_hosts = "*"
    /\ \E use_default_handlers \in BOOLEAN :
         handlers = IF use_default_handlers THEN DefaultHandlers ELSE InitHandlers
    /\ calls = 0
    /\ last_add = [type |-> <<>>, name |-> <<>>, handler |-> NoHandler, raised |-> ""]
    /\ last_group = NoGroupCall
    /\ req = NoRequest
    /\ pc = "idle"
    /\ ctx = EmptyCtx
    /\ steps = <<>>
    /\ response = NoResponse
    /\ submitted = <<>>
    /\ PathIdle
    /\ JailIdle

\* add_handler_group is called with some type and group.
AddHandlerGroup ==
    /\ last_group.n < MaxGroupCalls
    /\ \E type \in GroupTypes, group \in Groups :
         LET r == add_handler_group(handlers, type, group)
         IN  /\ handlers' = r.handlers
             /\ last_group' = [n |-> last_group.n + 1, type |-> type,
                               raised |-> r.raised, group |-> group]
    /\ UNCHANGED <<data_root, allowed_hosts, calls, last_add, reqVars, pathVars,
                   jailVars>>

NextRegistry ==
    \/ AddHandler
    \/ AddHandlerGroup

SpecRegistry == InitRegistry /\ [][NextRegistry]_vars

(***************************************************************************)
(* Properties                                                              *)
(***************************************************************************)
\* The origin of a request: X-Forwarded-For if the header is there, else the peer.
ResolvedOrigin(r) ==
    IF r.headers = EmptyDict THEN r.remote_addr ELSE r.headers["X-Forwarded-For"]

OriginAllowed == allowed_hosts = "*" \/ ResolvedOrigin(req) = allowed_hosts

IsPrefix(a, b) == Len(a) <= Len(b) /\ a = SubSeq(b, 1, Len(a))

\* What the first three steps make of the request in hand.
Gate == _checkRequest(allowed_hosts, req)
Resolved == _parsePath(req.path)
Located == _getCollectionPath(data_root, Resolved.ids[1])
PassesLocator == Gate.ok /\ Resolved.ok /\ Located.ok

\* The request in hand got as far as line 226.
ReachedExecution == pc = "done" /\ ctx.data = "dict"

\* C1: whatever the identifier and the root, _getCollectionPath raises
\* BadRequest or returns a path inside the root's directory tree.
JailInvariant ==
    jail_out.phase = "returned" =>
        \/ ~jail_out.result.ok
        \/ IsDescendant(jail_out.result.path, data_root)

\* C4: _parsePath of a path constructed from one to three type/id pairs in slot
\* order and an operation name returns the type of the last pair, the name and
\* the ids it was constructed from, whatever slash-free strings they are.
PathRoundTrip ==
    (parse_out.phase = "returned" /\ parse_built.set) =>
        parse_out.result = [ok |-> TRUE,
                            type |-> parse_built.type,
                            name |-> parse_built.name,
                            ids |-> parse_built.ids]

\* C4's case: three pairs whose identifiers and operation name are type names
\* or empty have been parsed.
PathRoundTripWitness ==
    /\ parse_out.phase = "returned"
    /\ parse_built.set
    /\ parse_built.ids = <<card, collection, <<>>>>
    /\ parse_built.name = note
    /\ parse_out.result.ok
    /\ parse_out.result.type = card

MethodGate ==
    (pc = "done" /\ req.method # "POST") =>
        /\ response.status = 405
        /\ response.allow = "POST"
        /\ steps = <<"_checkRequest">>

\* C3 amended: a request whose method is not POST and whose origin the
\* allow-list admits is answered 405 with Allow: POST, and nothing but the
\* gate has run for it.
MethodGateAfterOrigin ==
    (pc = "done" /\ req.method # "POST" /\ OriginAllowed) =>
        /\ response.status = 405
        /\ response.allow = "POST"
        /\ steps = <<"_checkRequest">>

\* C3's case: a GET of a path that does not resolve, from the one allowed host.
MethodGateWitness ==
    /\ pc = "done"
    /\ req.method = "GET"
    /\ ~_parsePath(req.path).ok
    /\ allowed_hosts # "*"
    /\ response.status = 405

\* C5: a request that passes the gate, resolves, stays in the jail and names a
\* registered operation, but whose body is no JSON, is answered 400 and
\* nothing is submitted to the executor.
MalformedBodyRejected ==
    (pc = "done" /\ PassesLocator /\ ctx.handler # NoHandler
                 /\ req.body \in MalformedBodies) =>
        /\ response.status = 400
        /\ response.exc = ""
        /\ submitted = <<>>
        /\ ctx.data = "unset"

MalformedBodyWitness ==
    /\ pc = "done"
    /\ PassesLocator
    /\ ctx.handler # NoHandler
    /\ req.body \in MalformedBodies
    /\ response.status = 400

\* C6: no exception leaves __call__ for a request that reaches execution, and
\* an operation that raises is answered 500 with an empty body.
ExecutionErrorsCaught ==
    ReachedExecution =>
        /\ response.exc = ""
        /\ ctx.handler.does = "raises" =>
               (response.status = 500 /\ response.body = "")

\* The order of the steps as C7 states it, and as __call__ takes them.
ClaimedOrder == <<"_checkRequest", "_parsePath", "_getCollectionPath",
                  "_parseRequestBody", "_getHandler">>
CodeOrder == <<"_checkRequest", "_parsePath", "_getCollectionPath",
               "_getHandler", "_parseRequestBody">>

ResponseTranslation ==
    (ReachedExecution /\ ctx.handler.does # "raises") =>
        /\ response.status = 200
        /\ IF ~ctx.hasReturnValue \/ ctx.handler.does = "returns_none"
           THEN response.body = "" /\ response.content_type = "text/plain"
           ELSE /\ response.body = "json.dumps(output)"
                /\ response.content_type = "application/json"

\* C9: an add_handler call for a (type, name) that is registered raises and
\* leaves the registry as it was: the lookup still returns the first handler.
RegistryUniqueness ==
    [][ (/\ calls' = calls + 1
         /\ last_add'.type \in DOMAIN handlers
         /\ last_add'.name \in DOMAIN handlers[last_add'.type])
        => (/\ last_add'.raised # ""
            /\ handlers' = handlers
            /\ _getHandler(handlers', last_add'.type, last_add'.name).handler
                 = handlers[last_add'.type][last_add'.name]) ]_vars

\* C9's case: a second, different handler was offered for a registered pair.
RegistryUniquenessWitness ==
    /\ last_add.raised = "already exists"
    /\ handlers[last_add.type][last_add.name] # last_add.handler

\* C10: with an allow-list other than '*' a request is answered 403 exactly
\* when its resolved origin differs from the configured value; with '*' none
\* is; and a request answered 403 has had nothing but the gate run for it.
OriginGate ==
    pc = "done" =>
        /\ response.status = 403 <=>
               (allowed_hosts # "*" /\ ResolvedOrigin(req) # allowed_hosts)
        /\ response.status = 403 =>
               (steps = <<"_checkRequest">> /\ ctx = EmptyCtx /\ submitted = <<>>)

\* C10's case: the peer is the allowed host but X-Forwarded-For names another.
OriginGateWitness ==
    /\ pc = "done"
    /\ allowed_hosts # "*"
    /\ req.remote_addr = allowed_hosts
    /\ req.headers # EmptyDict
    /\ req.headers["X-Forwarded-For"] # allowed_hosts
    /\ response.status = 403

\* The segments of a path: what is between the slashes, one leading slash apart.
PathSegments(p) ==
    IF p = <<>> THEN << <<>> >>
    ELSE split(IF p[1] = "/" THEN Tail(p) ELSE p)

\* The segments are one to three type/id pairs in slot order, then at most one
\* more segment.
ValidForm(segs) ==
    \E k \in 1..3 :
        /\ Len(segs) \in {2 * k, 2 * k + 1}
        /\ segs[1] = collection
        /\ k >= 2 => segs[3] \in {model, note, deck}
        /\ k = 3 => segs[5] = card

\* The position of a type in the grammar: the number of identifiers it needs.
Depth(type) == IF type = collection THEN 1 ELSE IF type = card THEN 3 ELSE 2

\* An identifier has a '..' segment, or is an absolute path.
HasDotDot(id) == \E i \in 1..Len(split(id)) : split(id)[i] = <<".", ".">>
IsAbsolute(id) == Len(id) > 0 /\ id[1] = "/"

DefaultOperation ==
    parse_out.phase = "returned" =>
        /\ (parse_built.set /\ parse_built.bare) =>
               (parse_out.result.ok /\ parse_out.result.name = index)
        /\ parse_out.result.ok =>
               (Len(parse_out.result.ids) > 0 /\ parse_out.result.type \in Types)

\* C14's case: /collection/X/deck/Y/card/Z has been parsed.
DefaultOperationWitness ==
    /\ parse_out.phase = "returned"
    /\ parse_built.bare
    /\ parse_built.type = card
    /\ parse_built.ids = <<x, x, x>>
    /\ parse_out.result.name = index

\* C15: _parsePath raises NotFound exactly for the paths that are not one to
\* three type/id pairs in slot order followed by at most one segment: those
\* that leave more than one segment after the pass, or give no identifier.
PathRejection ==
    parse_out.phase = "returned" =>
        (parse_out.result = NotFound <=> ~ValidForm(PathSegments(parse_arg)))

\* C15's case: /collection/X/card/Z/op, which skips the middle slot.
PathRejectionWitness ==
    /\ parse_out.phase = "returned"
    /\ parse_arg = Url(<<collection, x, card, x, x>>)
    /\ parse_out.result = NotFound

\* C16: in /collection/X/T/Y/card, T of the middle slot, the ids are X and Y
\* whatever strings they are and 'card' is the name; in /collection/X/T, T any
\* type name, T is the name of an operation on the collection.
PositionalPrecedence ==
    parse_out.phase = "returned" =>
        LET segs == PathSegments(parse_arg) IN
        /\ (Len(segs) = 5 /\ segs[1] = collection
                /\ segs[3] \in {model, note, deck} /\ segs[5] = card) =>
               parse_out.result = [ok |-> TRUE, type |-> segs[3], name |-> card,
                                   ids |-> <<segs[2], segs[4]>>]
        /\ (Len(segs) = 3 /\ segs[1] = collection /\ segs[3] \in Types) =>
               parse_out.result = [ok |-> TRUE, type |-> collection,
                                   name |-> segs[3], ids |-> <<segs[2]>>]

\* C16's case: type names stand where the identifiers are expected.
PositionalPrecedenceWitness ==
    /\ parse_out.phase = "returned"
    /\ parse_arg = Url(<<collection, note, deck, card, card>>)
    /\ parse_out.result.ok
    /\ parse_out.result.type = deck
    /\ parse_out.result.ids = <<note, card>>

\* C18: a result of _parsePath has as many ids as its type has slots before
\* and at it: 1 for collection, 2 for model, note and deck, 3 for card.
IdsMatchDepth ==
    (parse_out.phase = "returned" /\ parse_out.result.ok) =>
        Len(parse_out.result.ids) = Depth(parse_out.result.type)

\* C18's case: a path that ends on the type name of the next slot.
IdsMatchDepthWitness ==
    /\ parse_out.phase = "returned"
    /\ parse_arg = Url(<<collection, x, note>>)
    /\ parse_out.result.ok
    /\ parse_out.result.type = collection
    /\ Len(parse_out.result.ids) = 1

\* C20 as stated: a request that passes gate, path, locator and lookup with a
\* body that is JSON but no object is answered 400, and nothing is submitted.
NonObjectBodyRejected ==
    (pc = "done" /\ PassesLocator /\ ctx.handler # NoHandler
                 /\ req.body \in ArrayBodies) =>
        /\ response.status = 400
        /\ response.exc = ""
        /\ submitted = <<>>

\* C19: the request in hand is at line 226 only after gate, path resolution,
\* location, lookup and body decode have all succeeded, in that order of the
\* code; an operation is submitted only by the step taken there, one at a
\* time, and that step ends the request; a request that failed one of the
\* five steps never got there and nothing was submitted.
ValidatedBeforeExecution ==
    /\ [](pc = "run" =>
            /\ Gate.ok
            /\ Resolved.ok
            /\ Located.ok
            /\ _getHandler(handlers, Resolved.type, Resolved.name).ok
            /\ ctx.handler # NoHandler
            /\ json_loads(req.body) = [ok |-> TRUE, type |-> "dict"]
            /\ steps = CodeOrder)
    /\ [][submitted' # submitted =>
            /\ pc = "run"
            /\ pc' = "done"
            /\ Len(submitted') = Len(submitted) + 1]_vars
    /\ []((pc = "done" /\ ~(/\ PassesLocator
                            /\ ctx.handler # NoHandler
                            /\ req.body \in ObjectBodies)) =>
            (~ReachedExecution /\ submitted = <<>>))

\* C19's case: a request has passed the five steps and stands at line 226.
ValidatedBeforeExecutionWitness ==
    /\ pc = "run"
    /\ steps = CodeOrder
    /\ submitted = <<>>

\* The flag C17 expects of a method: its own override, else the group's
\* default, else (a group without one) the lookup's True.
ExpectedFlag(group, m) ==
    IF m.attr # "absent" THEN m.attr = "True"
    ELSE IF group.hasReturnValue # "absent" THEN group.hasReturnValue = "True"
    ELSE TRUE

PublicNames(group) ==
    {group.methods[i].name : i \in {j \in 1..Len(group.methods) :
                                       group.methods[j].name[1] # "_"}}

\* Every public method of the group is what the lookup returns for its name,
\* with the expected flag.
GroupRegistered(reg, type, group) ==
    \A i \in 1..Len(group.methods) :
        LET m == group.methods[i]
            h == _getHandler(reg, type, m.name)
        IN  m.name \in PublicNames(group) =>
                /\ h.ok
                /\ h.handler.func = m.func
                /\ h.hasReturnValue = ExpectedFlag(group, m)

\* The (type, name) pairs the lookup is tried with: those of the model and a
\* type that is none.
LookupTypes == Types \cup {x}
LookupNames ==
    UNION {PublicNames(g) : g \in Groups} \cup {index, <<"_">> \o op, _get_filedata}

\* C17: an add_handler_group(type, group) that returns has registered the
\* public methods of the group under type and nothing else, so no private
\* method; the lookup gives each the method's own hasReturnValue if it has one
\* and the group's otherwise; the default groups are registered so by
\* __init__; and the lookup raises NotFound exactly for the pairs that are
\* not registered.
FlagResolution ==
    /\ [][ (last_group' # last_group /\ last_group'.raised = "") =>
             LET type == last_group'.type
                 group == last_group'.group
             IN  /\ GroupRegistered(handlers', type, group)
                 /\ DOMAIN handlers'[type]
                      = DOMAIN handlers[type] \cup PublicNames(group)
                 /\ \A n \in DOMAIN handlers[type] :
                        handlers'[type][n] = handlers[type][n]
                 /\ \A t \in Types \ {type} : handlers'[t] = handlers[t] ]_vars
    /\ [](/\ GroupRegistered(DefaultHandlers, collection, CollectionHandler)
          /\ GroupRegistered(DefaultHandlers, note, NoteHandler)
          /\ GroupRegistered(DefaultHandlers, model, ModelHandler)
          /\ GroupRegistered(DefaultHandlers, deck, DeckHandler)
          /\ DefaultHandlers[card] = EmptyDict)
    /\ [](\A type \in LookupTypes, name \in LookupNames :
            _getHandler(handlers, type, name) = NotFound
                <=> (type \notin DOMAIN handlers \/ name \notin DOMAIN handlers[type]))

\* C17's case: a group whose default is False has been registered under note
\* next to the default handlers: its plain method and its @noReturnValue
\* method are there, its private method is not.
FlagResolutionWitness ==
    /\ last_group.raised = ""
    /\ last_group.group = CustomGroup("False")
    /\ last_group.type = note
    /\ index \in DOMAIN handlers[note]
    /\ _getHandler(handlers, note, op).ok
    /\ ~_getHandler(handlers, note, op).hasReturnValue
    /\ ~_getHandler(handlers, note, x).hasReturnValue
    /\ _getHandler(handlers, note, index).hasReturnValue
    /\ _getHandler(handlers, note, <<"_">> \o op) = NotFound

\* C11 as stated: POST /collection/deck1/note/find_notes with the body
\* {"query": "tag:foo"}, the default handlers registered, resolves to the
\* operation find_notes of collection deck1 and is answered 200 with JSON.
FindNotesScenario ==
    (/\ pc = "done"
     /\ req.method = "POST"
     /\ req.path = Url(<<collection, deck1, note, find_notes>>)
     /\ req.body \in ObjectBodies
     /\ Gate.ok
     /\ find_notes \in DOMAIN handlers[collection]) =>
        /\ ctx.type = collection
        /\ ctx.name = find_notes
        /\ ctx.ids = <<deck1>>
        /\ response.status = 200
        /\ response.content_type = "application/json"

\* C12 as stated: POST /collection/deck1/add_note with an object body that has
\* no 'model' key, the default handlers registered, is answered 500.  (The
\* model has no store; that no note is added is not part of the formula.)
AddNoteScenario ==
    (/\ pc = "done"
     /\ req.method = "POST"
     /\ req.path = Url(<<collection, deck1, add_note>>)
     /\ req.body \in ObjectBodies
     /\ Gate.ok
     /\ add_note \in DOMAIN handlers[collection]) =>
        /\ ctx.name = add_note
        /\ response.status = 500
        /\ response.exc = ""

====
